---- MODULE Spec2Model ----
(***************************************************************************)
(* Rotisserie scoring (src/roto_calculator.py) and trade simulation        *)
(* (src/trade_simulator.py) over a LeagueData snapshot                     *)
(* (src/league_data.py).                                                   *)
(*                                                                         *)
(* Numbers are exact rationals <<n, d>> with d > 0 in lowest terms: stat   *)
(* totals and per-game averages are integers <<n, 1>>, Python's true       *)
(* division `/` is RDiv.  A Python dict is a function whose DOMAIN is the  *)
(* set of keys present; `d.get(k)` being None is `k \notin DOMAIN d`.      *)
(* Dict iteration order is insertion order: for mappings keyed by team it  *)
(* is the order of `teams`, for mappings keyed by stat the order of        *)
(* `roto_stat_ids`.                                                        *)
(***************************************************************************)
EXTENDS Integers, Sequences, FiniteSets, TLC

VARIABLES
    roto_stat_ids,    \* LeagueData.roto_stat_ids: list of scoring stat ids
    negative_stats,   \* LeagueData.negative_stats: lower-is-better stat ids
    teams,            \* LeagueData.teams: team keys in insertion order
    heap,             \* objects holding team totals: heap.ld is the object
                      \* LeagueData.team_stats refers to, heap.copy the object
                      \* the last simulate_trade built with deepcopy
    rosters,          \* LeagueData.rosters: team key -> list of player keys
    player_stats,     \* LeagueData.player_stats: player key -> {stat: avg}
    remaining_games,  \* TradeSimulator.remaining_games
    op,               \* the caller's position: "idle", or the public method
                      \* that has just returned to it
    args,             \* the arguments of that call
    ret,              \* its return value
    evals,            \* the simulate_trade evaluations in progress on
                      \* different threads: their arguments, locals and
                      \* position
    stat_id_map,      \* LeagueData.stat_id_map: stat id -> display name
    reverse_stat_map  \* LeagueData.reverse_stat_map: display name -> stat id

vars == <<roto_stat_ids, negative_stats, teams, heap, rosters, player_stats,
          remaining_games, op, args, ret, evals, stat_id_map, reverse_stat_map>>

snapshot == <<roto_stat_ids, negative_stats, teams, rosters, player_stats,
              remaining_games, stat_id_map, reverse_stat_map>>

----------------------------------------------------------------------------
(* Bounds of the model.                                                    *)

\* stat totals of a team range over 0..MaxVal
MaxVal == 2

\* per-game averages of a player range over 0..MaxAvg
MaxAvg == 2

\* remaining_games ranges over 1..MaxGames in the trade specification
MaxGames == 2

\* max_results ranges over -1..MaxResults, and the default
MaxResults == 2

\* TradeSimulator.__init__: remaining_games=30
DefaultRemainingGames == 30

\* TradeSimulator.find_best_trades: max_results=5
DefaultMaxResults == 5

----------------------------------------------------------------------------
(* Exact arithmetic.                                                       *)

Abs(n) == IF n < 0 THEN -n ELSE n

RECURSIVE GCD(_, _)
GCD(a, b) == IF b = 0 THEN a ELSE GCD(b, a % b)

\* the rational n/d (d # 0) in lowest terms with a positive denominator
Frac(n, d) ==
    LET s == IF d < 0 THEN -1 ELSE 1
        g == GCD(Abs(n), Abs(d))
    IN  <<(s * n) \div g, (s * d) \div g>>

R(n) == <<n, 1>>
RAdd(a, b) == Frac(a[1] * b[2] + b[1] * a[2], a[2] * b[2])
RSub(a, b) == Frac(a[1] * b[2] - b[1] * a[2], a[2] * b[2])
RMul(a, b) == Frac(a[1] * b[1], a[2] * b[2])
RDiv(a, b) == Frac(a[1] * b[2], a[2] * b[1])
RLt(a, b) == a[1] * b[2] < b[1] * a[2]
RLe(a, b) == a[1] * b[2] <= b[1] * a[2]
REq(a, b) == a[1] * b[2] = b[1] * a[2]

RECURSIVE RSum(_)
RSum(s) == IF s = <<>> THEN R(0) ELSE RAdd(s[1], RSum(Tail(s)))

Range(s) == {s[i] : i \in DOMAIN s}

\* the keys of a dict in first-insertion order, given the order they were
\* offered in
RECURSIVE Dedup(_)
Dedup(s) ==
    IF s = <<>> THEN <<>>
    ELSE LET h == s[Len(s)]
             front == Dedup(SubSeq(s, 1, Len(s) - 1))
         IN  IF h \in Range(front) THEN front ELSE Append(front, h)

EmptyDict == [k \in {} |-> 0]

\* d.get(k, 0) for a dict of numbers
Get0(d, k) == IF k \in DOMAIN d THEN d[k] ELSE R(0)

\* d[k] = v
Put(d, k, v) == (k :> v) @@ d

\* Body applied to the value of e, e being computed once: a local variable
\* assigned the result of a call
Bind(e, Body(_)) == CHOOSE y \in {Body(x) : x \in {e}} : TRUE

----------------------------------------------------------------------------
(* LeagueData                                                              *)

\* a league in which no stat counts as negative
NoNegativeStats(stat_id) == FALSE

is_negative_stat(stat_id) == stat_id \in negative_stats

\* DEFAULT_ROTO_STATS (lines 11-21)
DEFAULT_ROTO_STATS ==
    ("5" :> "FG%") @@ ("8" :> "FT%") @@ ("10" :> "3PTM") @@ ("12" :> "PTS")
    @@ ("15" :> "REB") @@ ("16" :> "AST") @@ ("17" :> "STL") @@ ("18" :> "BLK")
    @@ ("19" :> "TO")

\* list(DEFAULT_ROTO_STATS.keys())
DefaultRotoStatIds == <<"5", "8", "10", "12", "15", "16", "17", "18", "19">>

\* LeagueData.get_stat_name; f'Stat {stat_id}' is written "Stat"
get_stat_name(stat_id) ==
    IF stat_id \in DOMAIN stat_id_map THEN stat_id_map[stat_id]
    ELSE IF stat_id \in DOMAIN DEFAULT_ROTO_STATS THEN DEFAULT_ROTO_STATS[stat_id]
    ELSE "Stat"

\* a stat_id_map in which every stat of the list ids is displayed under its
\* id
IdNames(ids) == [stat_id \in Range(ids) |-> stat_id]

\* lines 118-124: display name -> stat id for the entries of the map names,
\* then the defaults for the display names still missing.  The maps here
\* give different stats different names.
ReverseNames(names) ==
    LET given == {names[sid] : sid \in DOMAIN names}
        defaults == {DEFAULT_ROTO_STATS[sid] : sid \in DOMAIN DEFAULT_ROTO_STATS}
    IN  [dname \in given \cup defaults |->
            IF dname \in given THEN CHOOSE sid \in DOMAIN names : names[sid] = dname
            ELSE CHOOSE sid \in DOMAIN DEFAULT_ROTO_STATS :
                     DEFAULT_ROTO_STATS[sid] = dname]

\* lines 95-109: the loop over raw_categories from index i; st holds
\* stat_id_map, roto_stat_ids and negative_stats
RECURSIVE CategoriesLoop(_, _, _)
CategoriesLoop(raw_categories, i, st) ==
    IF i > Len(raw_categories) THEN st
    ELSE LET cat == raw_categories[i]
             stat_id == cat.stat_id
         IN  CategoriesLoop(raw_categories, i + 1,
                 [stat_id_map |-> Put(st.stat_id_map, stat_id, cat.display_name),
                  roto_stat_ids |->
                      IF cat.is_only_display_stat # "1" /\ stat_id # ""
                      THEN Append(st.roto_stat_ids, stat_id)
                      ELSE st.roto_stat_ids,
                  negative_stats |->
                      IF cat.sort_order = "0" THEN st.negative_stats \cup {stat_id}
                      ELSE st.negative_stats])

\* lines 111-115: the defaults when the catalog has no scoring stat
WithDefaults(st) ==
    IF st.roto_stat_ids # <<>> THEN st
    ELSE [stat_id_map |-> DEFAULT_ROTO_STATS @@ st.stat_id_map,
          roto_stat_ids |-> DefaultRotoStatIds,
          negative_stats |-> st.negative_stats \cup {"19"}]

\* LeagueData.fetch_settings on the response raw_categories: the fields it
\* leaves.  stat_id_map and roto_stat_ids start empty (lines 92-93);
\* negative_stats starts as it is.
fetch_settings(raw_categories) ==
    LET st == WithDefaults(CategoriesLoop(raw_categories, 1,
                  [stat_id_map |-> EmptyDict,
                   roto_stat_ids |-> <<>>,
                   negative_stats |-> negative_stats]))
    IN  [stat_id_map |-> st.stat_id_map,
         roto_stat_ids |-> st.roto_stat_ids,
         negative_stats |-> st.negative_stats,
         reverse_stat_map |-> ReverseNames(st.stat_id_map)]

\* iteration order of a dict keyed by team key
TeamItems(team_stats) == SelectSeq(teams, LAMBDA tk : tk \in DOMAIN team_stats)

----------------------------------------------------------------------------
(* RotoCalculator.calculate_standings                                      *)

\* every team listed, a stat it does not report counting as 0
TeamsValuesDefaultZero(team_stats, stat_id) ==
    LET all == TeamItems(team_stats)
    IN  [i \in 1..Len(all) |-> [tk |-> all[i], val |-> Get0(team_stats[all[i]], stat_id)]]

\* teams_values: (team_key, value) for teams that have this stat
teams_values_of(team_stats, stat_id) ==
    LET has == SelectSeq(TeamItems(team_stats),
                      LAMBDA tk : stat_id \in DOMAIN team_stats[tk])
    IN  [i \in 1..Len(has) |-> [tk |-> has[i], val |-> team_stats[has[i]][stat_id]]]

\* x sorts strictly before y: list.sort(key=value, reverse=reverse)
SortsBefore(x, y, reverse) ==
    IF reverse THEN RLt(y.val, x.val) ELSE RLt(x.val, y.val)

\* list.sort is stable: an element goes after every element it does not
\* strictly precede
RECURSIVE InsertStable(_, _, _)
InsertStable(sorted, x, reverse) ==
    IF sorted = <<>> THEN <<x>>
    ELSE IF SortsBefore(x, sorted[1], reverse)
         THEN <<x>> \o sorted
         ELSE <<sorted[1]>> \o InsertStable(Tail(sorted), x, reverse)

RECURSIVE StableSort(_, _)
StableSort(s, reverse) ==
    IF s = <<>> THEN <<>>
    ELSE InsertStable(StableSort(SubSeq(s, 1, Len(s) - 1), reverse),
                      s[Len(s)], reverse)

\* a tie scan that never finds the next team tied
TieEndNoTies(tv, i, j) == j

\* the inner while loop: first 0-based j >= start whose value differs from
\* the value at 0-based position i
RECURSIVE TieEnd(_, _, _)
TieEnd(tv, i, j) ==
    IF j < Len(tv) /\ REq(tv[j + 1].val, tv[i + 1].val)
    THEN TieEnd(tv, i, j + 1)
    ELSE j

RECURSIVE SumPoints(_, _, _)
SumPoints(num_teams, i, j) ==
    IF i >= j THEN 0 ELSE (num_teams - i) + SumPoints(num_teams, i + 1, j)

\* avg_points of the tie block at 0-based positions i..j-1
AvgPoints(num_teams, i, j) == RDiv(R(SumPoints(num_teams, i, j)), R(j - i))

\* the outer while loop from 0-based position i
RECURSIVE RankFrom(_, _, _)
RankFrom(tv, num_teams, i) ==
    IF i >= Len(tv) THEN <<>>
    ELSE LET j == TieEnd(tv, i, i + 1)
             avg_points == AvgPoints(num_teams, i, j)
         IN  [k \in 1..(j - i) |->
                 [tk |-> tv[i + k].tk, val |-> tv[i + k].val, pts |-> avg_points]]
             \o RankFrom(tv, num_teams, j)

\* num_teams = len(team_stats)
NumTeamsOf(team_stats) == Cardinality(DOMAIN team_stats)

\* a direction that ignores negative stats
SortDescendingAlways(stat_id) == TRUE

\* line 67: reverse = not self.ld.is_negative_stat(stat_id)
SortReverse(stat_id) == ~ is_negative_stat(stat_id)

RankCategory(team_stats, stat_id) ==
    RankFrom(StableSort(teams_values_of(team_stats, stat_id), SortReverse(stat_id)),
             NumTeamsOf(team_stats), 0)

\* category_points[tk][stat_id] = avg_points for the entries k.. of ranked
\* (line 89)
RECURSIVE AssignPoints(_, _, _, _)
AssignPoints(category_points, ranked, stat_id, k) ==
    IF k > Len(ranked) THEN category_points
    ELSE AssignPoints(
             [category_points EXCEPT
                 ![ranked[k].tk] = Put(@, stat_id, ranked[k].pts)],
             ranked, stat_id, k + 1)

\* the loop over roto_stat_ids (lines 54-93) from index i; acc holds
\* rankings and category_points
RECURSIVE RankLoop(_, _, _)
RankLoop(team_stats, i, acc) ==
    IF i > Len(roto_stat_ids) THEN acc
    ELSE LET stat_id == roto_stat_ids[i]
             ranked == RankCategory(team_stats, stat_id)
         IN  IF Len(teams_values_of(team_stats, stat_id)) = 0
             THEN RankLoop(team_stats, i + 1, acc)
             ELSE RankLoop(team_stats, i + 1,
                      [rankings |-> Put(acc.rankings, stat_id, ranked),
                       category_points |->
                           AssignPoints(acc.category_points, ranked, stat_id, 1)])

\* a total that misses the category inserted last
SumValuesButLast(d) ==
    LET keys == SelectSeq(Dedup(roto_stat_ids), LAMBDA s : s \in DOMAIN d)
    IN  RSum([i \in 1..(Len(keys) - 1) |-> d[keys[i]]])

\* sum(d.values()) for a dict d keyed by stat id
SumValues(d) ==
    LET keys == SelectSeq(Dedup(roto_stat_ids), LAMBDA s : s \in DOMAIN d)
    IN  RSum([i \in 1..Len(keys) |-> d[keys[i]]])

\* lines 96-98, for the team keys ks
RECURSIVE RotoScores(_, _)
RotoScores(category_points, ks) ==
    IF ks = <<>> THEN EmptyDict
    ELSE Put(RotoScores(category_points, Tail(ks)),
             ks[1], SumValues(category_points[ks[1]]))

\* {tk: {} for tk in team_stats}
RECURSIVE EmptyPoints(_)
EmptyPoints(ks) ==
    IF ks = <<>> THEN EmptyDict ELSE Put(EmptyPoints(Tail(ks)), ks[1], EmptyDict)

calculate_standings(team_stats) ==
    LET ks == TeamItems(team_stats)
        done == RankLoop(team_stats, 1,
                         [rankings |-> EmptyDict, category_points |-> EmptyPoints(ks)])
    IN  [rankings |-> done.rankings,
         roto_scores |-> RotoScores(done.category_points, ks),
         category_points |-> done.category_points]

----------------------------------------------------------------------------
(* RotoCalculator.get_standings_gaps, get_safety_margins,                  *)
(* get_roto_standings_table                                                *)

\* Python's None
None == <<>>

\* the tie-breaking epsilon of lines 154 and 157: 0.001
Epsilon == Frac(1, 1000)

\* round(x, 3): to the nearest multiple of 1/1000, an exact half to the even
\* one
Round3(x) ==
    LET n == x[1] * 1000
        d == x[2]
        f == n \div d
        r == n % d
        up == (2 * r > d) \/ (2 * r = d /\ f % 2 = 1)
    IN  Frac(IF up THEN f + 1 ELSE f, 1000)

\* a search that settles on the first entry when team_key is not found
TeamIdxOrFirst(ranked, team_key, idx) ==
    IF \E i \in DOMAIN ranked : ranked[i].tk = team_key
    THEN (CHOOSE i \in DOMAIN ranked :
              /\ ranked[i].tk = team_key
              /\ \A j \in 1..(i - 1) : ranked[j].tk # team_key) - 1
    ELSE 0

\* lines 134-138: the 0-based index of team_key in ranked, from index idx on;
\* -1 stands for team_idx staying None
RECURSIVE TeamIdx(_, _, _)
TeamIdx(ranked, team_key, idx) ==
    IF idx >= Len(ranked) THEN -1
    ELSE IF ranked[idx + 1].tk = team_key THEN idx
         ELSE TeamIdx(ranked, team_key, idx + 1)

\* a test that also skips the team in second place
HasAboveFromThird(team_idx) == team_idx > 1

\* line 150: a team is ranked above the team at 0-based index team_idx
HasAbove(team_idx) == team_idx > 0

\* line 162: a team is ranked below the team at 0-based index team_idx
HasBelow(ranked, team_idx) == team_idx < Len(ranked) - 1

\* the difference to the team above without the 0.001
ToGainWithoutEpsilon(is_negative, current_val, next_above_val) ==
    IF is_negative THEN RSub(current_val, next_above_val)
    ELSE RSub(next_above_val, current_val)

\* lines 152-157
ToGain(is_negative, current_val, next_above_val) ==
    IF is_negative THEN RAdd(RSub(current_val, next_above_val), Epsilon)
    ELSE RAdd(RSub(next_above_val, current_val), Epsilon)

\* the difference to the team below taken as for a positive stat whatever
\* the stat
ToLoseUndirected(is_negative, current_val, next_below_val) ==
    RSub(current_val, next_below_val)

\* lines 164-169
ToLose(is_negative, current_val, next_below_val) ==
    IF is_negative THEN RSub(next_below_val, current_val)
    ELSE RSub(current_val, next_below_val)

\* the rank tied teams would share: one more than the number of entries
\* listed before the first entry with the team's value
SharedRank(ranked, team_idx) ==
    CHOOSE i \in DOMAIN ranked :
        /\ REq(ranked[i].val, ranked[team_idx + 1].val)
        /\ \A j \in 1..(i - 1) : ~ REq(ranked[j].val, ranked[team_idx + 1].val)

\* line 172: the 1-based position in the ranked list
CurrentRank(ranked, team_idx) == team_idx + 1

\* lines 143-179: the gap record of the team at 0-based index team_idx
GapOf(ranked, team_idx, stat_id) ==
    LET current_val == ranked[team_idx + 1].val
        is_negative == is_negative_stat(stat_id)
        has_above == HasAbove(team_idx)
        has_below == HasBelow(ranked, team_idx)
        next_above_val == ranked[team_idx].val
        next_below_val == ranked[team_idx + 2].val
        to_gain == ToGain(is_negative, current_val, next_above_val)
        to_lose == ToLose(is_negative, current_val, next_below_val)
    IN  [current_rank |-> CurrentRank(ranked, team_idx),
         current_value |-> current_val,
         to_gain_rank |-> IF has_above THEN Round3(to_gain) ELSE None,
         to_lose_rank |-> IF has_below THEN Round3(to_lose) ELSE None,
         next_above_value |-> IF has_above THEN next_above_val ELSE None,
         next_below_value |-> IF has_below THEN next_below_val ELSE None,
         rank_points |-> ranked[team_idx + 1].pts]

\* the loop over roto_stat_ids (lines 128-179) from index i
RECURSIVE GapsLoop(_, _, _, _)
GapsLoop(rankings, team_key, i, gaps) ==
    IF i > Len(roto_stat_ids) THEN gaps
    ELSE LET stat_id == roto_stat_ids[i]
             ranked == IF stat_id \in DOMAIN rankings THEN rankings[stat_id] ELSE <<>>
             team_idx == TeamIdx(ranked, team_key, 0)
         IN  IF Len(ranked) = 0 \/ team_idx = -1
             THEN GapsLoop(rankings, team_key, i + 1, gaps)
             ELSE GapsLoop(rankings, team_key, i + 1,
                           Put(gaps, stat_id, GapOf(ranked, team_idx, stat_id)))

get_standings_gaps(team_stats, team_key) ==
    GapsLoop(calculate_standings(team_stats).rankings, team_key, 1, EmptyDict)

\* no entry sorts before another: the list stays in insertion order
MarginKeepsOrder(x, y) == FALSE

\* x sorts strictly before y under the key of line 214: opportunity, None
\* counting as infinity
MarginSortsBefore(x, y) ==
    /\ x.opportunity # None
    /\ y.opportunity = None \/ RLt(x.opportunity, y.opportunity)

RECURSIVE InsertMargin(_, _)
InsertMargin(sorted, x) ==
    IF sorted = <<>> THEN <<x>>
    ELSE IF MarginSortsBefore(x, sorted[1])
         THEN <<x>> \o sorted
         ELSE <<sorted[1]>> \o InsertMargin(Tail(sorted), x)

RECURSIVE SortMargins(_)
SortMargins(s) ==
    IF s = <<>> THEN <<>>
    ELSE InsertMargin(SortMargins(SubSeq(s, 1, Len(s) - 1)), s[Len(s)])

\* lines 200-216
get_safety_margins(team_stats, team_key) ==
    LET gaps == get_standings_gaps(team_stats, team_key)
        keys == SelectSeq(Dedup(roto_stat_ids), LAMBDA s : s \in DOMAIN gaps)
        margins == [i \in 1..Len(keys) |->
                       [stat_id |-> keys[i],
                        stat_name |-> get_stat_name(keys[i]),
                        current_rank |-> gaps[keys[i]].current_rank,
                        safety_margin |-> gaps[keys[i]].to_lose_rank,
                        opportunity |-> gaps[keys[i]].to_gain_rank,
                        rank_points |-> gaps[keys[i]].rank_points]]
    IN  SortMargins(margins)

\* an entry also goes before the entries of equal score
TableSortsBeforeOrEqual(x, y) == RLe(y.roto_score, x.roto_score)

\* x sorts strictly before y under key roto_score, reverse=True (line 243)
TableSortsBefore(x, y) == RLt(y.roto_score, x.roto_score)

RECURSIVE InsertEntry(_, _)
InsertEntry(sorted, x) ==
    IF sorted = <<>> THEN <<x>>
    ELSE IF TableSortsBefore(x, sorted[1])
         THEN <<x>> \o sorted
         ELSE <<sorted[1]>> \o InsertEntry(Tail(sorted), x)

RECURSIVE SortTable(_)
SortTable(s) ==
    IF s = <<>> THEN <<>>
    ELSE InsertEntry(SortTable(SubSeq(s, 1, Len(s) - 1)), s[Len(s)])

\* team display names are the team keys
get_roto_standings_table(team_stats) ==
    LET result == calculate_standings(team_stats)
        table == [i \in 1..Len(teams) |->
                     [team_key |-> teams[i],
                      team_name |-> teams[i],
                      roto_score |-> IF teams[i] \in DOMAIN result.roto_scores
                                     THEN result.roto_scores[teams[i]] ELSE R(0),
                      category_points |-> IF teams[i] \in DOMAIN result.category_points
                                          THEN result.category_points[teams[i]]
                                          ELSE EmptyDict]]
    IN  SortTable(table)

----------------------------------------------------------------------------
(* TradeSimulator                                                          *)

\* PERCENTAGE_COMPONENTS, in the dict's order: FG% = FGM / FGA, FT% = FTM / FTA
PERCENTAGE_COMPONENTS ==
    << [pct |-> "5", made |-> "3", attempted |-> "4"],
       [pct |-> "8", made |-> "6", attempted |-> "7"] >>

PctStatIds == {PERCENTAGE_COMPONENTS[i].pct : i \in DOMAIN PERCENTAGE_COMPONENTS}

\* self.ld.player_stats.get(player_key, {})
averages_of(player_key) ==
    IF player_key \in DOMAIN player_stats THEN player_stats[player_key]
    ELSE EmptyDict

\* every average multiplied, the percentages too
ProjectEveryStat(player_key) ==
    LET averages == averages_of(player_key)
    IN  [stat_id \in DOMAIN averages |->
            RMul(averages[stat_id], R(remaining_games))]

project_player_ros(player_key) ==
    LET averages == averages_of(player_key)
    IN  [stat_id \in DOMAIN averages |->
            IF stat_id \in {"5", "8"} THEN averages[stat_id]
            ELSE RMul(averages[stat_id], R(remaining_games))]

\* LeagueData.get_team_player_keys
get_team_player_keys(team_key) ==
    IF team_key \in DOMAIN rosters THEN rosters[team_key] ELSE <<>>

\* an assignment in place of copy.deepcopy: the new name refers to the
\* object it was given
AliasCopy(h, ref) == [heap |-> h, ref |-> ref]

\* copy.deepcopy of the object at ref: a fresh object with equal contents
deepcopy(h, ref) == [heap |-> [h EXCEPT !.copy = h[ref]], ref |-> "copy"]

\* sum over the list pkeys of projected.get(pkey, {}).get(stat_id, 0)
RECURSIVE ProjectedSum(_, _)
ProjectedSum(pkeys, stat_id) ==
    IF pkeys = <<>> THEN R(0)
    ELSE RAdd(Get0(project_player_ros(pkeys[1]), stat_id),
              ProjectedSum(Tail(pkeys), stat_id))

\* lines 116-124 and 127-135: one team's adjustment for one non-ratio stat
AdjustTeam(nts, team_key, stat_id, remove_players, add_players) ==
    IF team_key \notin DOMAIN nts THEN nts
    ELSE LET current == RAdd(RSub(Get0(nts[team_key], stat_id),
                                  ProjectedSum(remove_players, stat_id)),
                             ProjectedSum(add_players, stat_id))
         IN  [nts EXCEPT ![team_key] = Put(@, stat_id, current)]

\* an iteration that adjusts my team and leaves their team alone
AdjustMyTeamOnly(nts, stat_id, my_players, their_players, my_team_key, their_team_key) ==
    IF stat_id \in PctStatIds THEN nts
    ELSE AdjustTeam(nts, my_team_key, stat_id, my_players, their_players)

\* one iteration of the loop over roto_stat_ids (lines 110-135)
AdjustIteration(nts, stat_id, my_players, their_players, my_team_key, their_team_key) ==
    LET mine == AdjustTeam(nts, my_team_key, stat_id, my_players, their_players)
        both == AdjustTeam(mine, their_team_key, stat_id, their_players, my_players)
    IN  IF stat_id \in PctStatIds THEN nts ELSE both

\* the loop over roto_stat_ids (lines 110-135) from index i
RECURSIVE AdjustStats(_, _, _, _, _, _)
AdjustStats(nts, i, my_players, their_players, my_team_key, their_team_key) ==
    IF i > Len(roto_stat_ids) THEN nts
    ELSE AdjustStats(AdjustIteration(nts, roto_stat_ids[i], my_players, their_players,
                                     my_team_key, their_team_key),
                     i + 1, my_players, their_players, my_team_key, their_team_key)

\* sum over the list pkeys of player_stats.get(pkey, {}).get(stat_id, 0) * remaining_games
RECURSIVE ComponentSum(_, _)
ComponentSum(pkeys, stat_id) ==
    IF pkeys = <<>> THEN R(0)
    ELSE RAdd(RMul(Get0(averages_of(pkeys[1]), stat_id), R(remaining_games)),
              ComponentSum(Tail(pkeys), stat_id))

\* without attempts the made total is stored as the percentage
PercentageOrMade(made, attempted) ==
    IF RLt(R(0), attempted) THEN RDiv(made, attempted) ELSE made

\* lines 166-169
Percentage(made, attempted) ==
    IF RLt(R(0), attempted) THEN RDiv(made, attempted) ELSE R(0)

\* lines 146-169: one team's component recalculation for one percentage stat
RecalcTeam(nts, c, team_key, remove_players, add_players) ==
    IF team_key \notin DOMAIN nts THEN nts
    ELSE LET made == RAdd(RSub(Get0(nts[team_key], c.made),
                               ComponentSum(remove_players, c.made)),
                          ComponentSum(add_players, c.made))
             attempted == RAdd(RSub(Get0(nts[team_key], c.attempted),
                                    ComponentSum(remove_players, c.attempted)),
                               ComponentSum(add_players, c.attempted))
         IN  [nts EXCEPT ![team_key] =
                 Put(Put(Put(@, c.made, made), c.attempted, attempted),
                     c.pct, Percentage(made, attempted))]

\* one iteration of the loop over PERCENTAGE_COMPONENTS (lines 138-169)
RecalcIteration(nts, c, my_players, their_players, my_team_key, their_team_key) ==
    LET mine == RecalcTeam(nts, c, my_team_key, my_players, their_players)
    IN  RecalcTeam(mine, c, their_team_key, their_players, my_players)

\* the loop over PERCENTAGE_COMPONENTS (lines 138-169) from index i
RECURSIVE RecalcPercentages(_, _, _, _, _, _)
RecalcPercentages(nts, i, my_players, their_players, my_team_key, their_team_key) ==
    IF i > Len(PERCENTAGE_COMPONENTS) THEN nts
    ELSE RecalcPercentages(RecalcIteration(nts, PERCENTAGE_COMPONENTS[i], my_players,
                                           their_players, my_team_key, their_team_key),
                           i + 1, my_players, their_players, my_team_key, their_team_key)

\* roto_scores.get(team_key, 0)
ScoreOf(result, team_key) ==
    IF team_key \in DOMAIN result.roto_scores THEN result.roto_scores[team_key]
    ELSE R(0)

\* simulate_trade run on heap h: the heap it leaves and the dict it returns.
\* Player display names (player_info) are the player keys.
simulate_trade(h, my_players, their_players, my_team_key, their_team_key) ==
    LET old_result == calculate_standings(h.ld)
        old_my_score == ScoreOf(old_result, my_team_key)
        old_their_score == ScoreOf(old_result, their_team_key)
        c == deepcopy(h, "ld")
        adjusted == AdjustStats(c.heap[c.ref], 1, my_players, their_players,
                                my_team_key, their_team_key)
        new_team_stats == RecalcPercentages(adjusted, 1, my_players, their_players,
                                            my_team_key, their_team_key)
        new_result == calculate_standings(new_team_stats)
        new_my_score == ScoreOf(new_result, my_team_key)
        new_their_score == ScoreOf(new_result, their_team_key)
    IN  [heap |-> [c.heap EXCEPT ![c.ref] = new_team_stats],
         result |-> [my_old_score |-> old_my_score,
                     my_new_score |-> new_my_score,
                     my_delta |-> RSub(new_my_score, old_my_score),
                     their_old_score |-> old_their_score,
                     their_new_score |-> new_their_score,
                     their_delta |-> RSub(new_their_score, old_their_score),
                     my_players_traded |-> my_players,
                     their_players_traded |-> their_players]]

\* the (opponent, my player, their player) triples in the order the three
\* nested loops of find_best_trades visit them (lines 218-229)
PairsWith(my_player_keys, opp_team_key) ==
    LET opp_player_keys == get_team_player_keys(opp_team_key)
        n == Len(opp_player_keys)
    IN  [x \in 1..(Len(my_player_keys) * n) |->
            [opp_team_key |-> opp_team_key,
             my_pk |-> my_player_keys[((x - 1) \div n) + 1],
             their_pk |-> opp_player_keys[((x - 1) % n) + 1]]]

\* a search that stops after the first opponent
OnlyFirstOpponent(i, my_team_key) ==
    LET others == SelectSeq(teams, LAMBDA t : t # my_team_key)
    IN  IF others = <<>> THEN <<>>
        ELSE PairsWith(get_team_player_keys(my_team_key), others[1])

\* the loops of lines 218-229 from the i-th team on
RECURSIVE Candidates(_, _)
Candidates(i, my_team_key) ==
    IF i > Len(teams) THEN <<>>
    ELSE (IF teams[i] = my_team_key THEN <<>>
          ELSE PairsWith(get_team_player_keys(my_team_key), teams[i]))
         \o Candidates(i + 1, my_team_key)

\* the filter with < in place of <=
ImprovesOrEqual(result) == ~ RLt(result.my_delta, R(0))

\* lines 231-233: a trade is kept only if it increases my Roto score
Improves(result) == ~ RLe(result.my_delta, R(0))

\* line 240
MutuallyBeneficial(result) == RLe(R(0), result.their_delta)

\* lines 235-240: the annotated result
Annotate(result, my_team_key, opp_team_key) ==
    [my_old_score |-> result.my_old_score,
     my_new_score |-> result.my_new_score,
     my_delta |-> result.my_delta,
     their_old_score |-> result.their_old_score,
     their_new_score |-> result.their_new_score,
     their_delta |-> result.their_delta,
     my_players_traded |-> result.my_players_traded,
     their_players_traded |-> result.their_players_traded,
     opponent_team_key |-> opp_team_key,
     my_team |-> my_team_key,
     mutually_beneficial |-> MutuallyBeneficial(result)]

\* the body of the nested loops, run for candidates i.. on heap h
RECURSIVE SimulateAll(_, _, _, _, _)
SimulateAll(h, cands, i, my_team_key, all_trades) ==
    IF i > Len(cands) THEN [heap |-> h, all_trades |-> all_trades]
    ELSE LET c == cands[i]
         IN  Bind(simulate_trade(h, <<c.my_pk>>, <<c.their_pk>>,
                                 my_team_key, c.opp_team_key),
                  LAMBDA r :
                      SimulateAll(r.heap, cands, i + 1, my_team_key,
                                  IF Improves(r.result)
                                  THEN Append(all_trades,
                                              Annotate(r.result, my_team_key,
                                                       c.opp_team_key))
                                  ELSE all_trades))

\* the sort key without its first component
TradeSortsByDelta(x, y) == RLt(y.my_delta, x.my_delta)

\* x sorts strictly before y under key (mutually_beneficial, my_delta),
\* reverse=True (lines 245-248): False < True, then my_delta
TradeSortsBefore(x, y) ==
    \/ x.mutually_beneficial /\ ~ y.mutually_beneficial
    \/ /\ x.mutually_beneficial = y.mutually_beneficial
       /\ RLt(y.my_delta, x.my_delta)

RECURSIVE InsertTrade(_, _)
InsertTrade(sorted, x) ==
    IF sorted = <<>> THEN <<x>>
    ELSE IF TradeSortsBefore(x, sorted[1])
         THEN <<x>> \o sorted
         ELSE <<sorted[1]>> \o InsertTrade(Tail(sorted), x)

RECURSIVE SortTrades(_)
SortTrades(s) ==
    IF s = <<>> THEN <<>>
    ELSE InsertTrade(SortTrades(SubSeq(s, 1, Len(s) - 1)), s[Len(s)])

\* the list returned whole
NoSlice(s, n) == s

\* the slice s[:n] of a Python list
SlicePrefix(s, n) ==
    IF n >= 0 THEN SubSeq(s, 1, IF n < Len(s) THEN n ELSE Len(s))
    ELSE SubSeq(s, 1, Len(s) + n)

\* find_best_trades run on heap h: the heap it leaves and the list it returns
find_best_trades(h, my_team_key, max_results) ==
    Bind(SimulateAll(h, Candidates(1, my_team_key), 1, my_team_key, <<>>),
         LAMBDA done :
             Bind(done.all_trades,
                  LAMBDA all_trades :
                      [heap |-> done.heap,
                       result |-> SlicePrefix(SortTrades(all_trades), max_results)]))

----------------------------------------------------------------------------
(* The snapshots the specifications start from.                            *)

TeamKeys == <<"t1", "t2", "t3">>
TeamSet == Range(TeamKeys)
AbsentTeam == "t9"
PlayerSet == {"p1", "p2", "p3", "p4"}

\* every dict over a subset of the keys in ks with values in vs
Dicts(ks, vs) == UNION {[d -> vs] : d \in SUBSET ks}

\* season totals of a team in the categories PTS ("12") and TO ("19"), each
\* reported or not
TotalsRows == Dicts({"12", "19"}, {R(v) : v \in 0..MaxVal})

\* PTS of t1 is v1.  With shape "full" every team reports FGM, FGA, FG%,
\* FTM, FTA, FT%, PTS and TO with FG% = FGM / FGA and FT% = FTM / FTA; with
\* "nocomp" no team reports the components FGM, FGA, FTM, FTA; with "sparse"
\* t1 does not report TO.
TradeTotals(v1, shape) ==
    LET fgm == [t1 |-> 1, t2 |-> 0, t3 |-> 1]
        fga == [t1 |-> 3, t2 |-> 2, t3 |-> 1]
        ftm == [t1 |-> 1, t2 |-> 1, t3 |-> 1]
        fta == [t1 |-> 2, t2 |-> 2, t3 |-> 2]
        to == [t1 |-> 0, t2 |-> 1, t3 |-> 0]
        pts == [t1 |-> v1, t2 |-> 1, t3 |-> 1]
        keys(t) == {"3", "4", "5", "6", "7", "8", "12", "19"}
                   \ ((IF shape = "nocomp" THEN {"3", "4", "6", "7"} ELSE {})
                      \cup (IF shape = "sparse" /\ t = "t1" THEN {"19"} ELSE {}))
    IN  [t \in TeamSet |->
            [s \in keys(t) |->
                CASE s = "3" -> R(fgm[t])
                  [] s = "4" -> R(fga[t])
                  [] s = "5" -> RDiv(R(fgm[t]), R(fga[t]))
                  [] s = "6" -> R(ftm[t])
                  [] s = "7" -> R(fta[t])
                  [] s = "8" -> RDiv(R(ftm[t]), R(fta[t]))
                  [] s = "12" -> R(pts[t])
                  [] s = "19" -> R(to[t])]]

\* per-game averages: PTS of p1 is a1, PTS of p3 is a3; p2 records FT% and
\* p3 records FG%; p4 has no recorded averages
TradeAverages(a1, a3) ==
    [p1 |-> ("3" :> R(0)) @@ ("4" :> R(3)) @@ ("12" :> R(a1)) @@ ("19" :> R(1)),
     p2 |-> ("3" :> R(0)) @@ ("4" :> R(2)) @@ ("6" :> R(1)) @@ ("7" :> R(1))
            @@ ("8" :> R(1)) @@ ("12" :> R(1)),
     p3 |-> ("3" :> R(1)) @@ ("4" :> R(1)) @@ ("5" :> R(1)) @@ ("12" :> R(a3))
            @@ ("19" :> R(0))]

\* a league of three teams with PTS and TO as scoring categories, every
\* combination of totals, and nothing on the rosters
Init ==
    /\ roto_stat_ids = <<"12", "19">>
    /\ negative_stats = {"19"}
    /\ teams = TeamKeys
    /\ \E ts \in [TeamSet -> TotalsRows] : heap = [ld |-> ts, copy |-> EmptyDict]
    /\ rosters = [t \in TeamSet |-> <<>>]
    /\ player_stats = EmptyDict
    /\ remaining_games = DefaultRemainingGames
    /\ op = "idle"
    /\ args = <<>>
    /\ ret = <<>>
    /\ evals = <<>>
    /\ stat_id_map = IdNames(roto_stat_ids)
    /\ reverse_stat_map = ReverseNames(IdNames(roto_stat_ids))

\* a league of three teams with FG%, PTS and TO as scoring categories and
\* four rostered players
InitTrade ==
    /\ roto_stat_ids = <<"5", "12", "19">>
    /\ negative_stats = {"19"}
    /\ teams = TeamKeys
    /\ \E v1 \in 0..MaxVal, shape \in {"full", "nocomp", "sparse"} :
           heap = [ld |-> TradeTotals(v1, shape), copy |-> EmptyDict]
    /\ rosters = [t1 |-> <<"p1", "p2">>, t2 |-> <<"p3">>, t3 |-> <<"p4">>]
    /\ \E a1 \in 0..MaxAvg, a3 \in 0..MaxAvg : player_stats = TradeAverages(a1, a3)
    /\ remaining_games \in 1..MaxGames
    /\ op = "idle"
    /\ args = <<>>
    /\ ret = <<>>
    /\ evals = <<>>
    /\ stat_id_map = IdNames(roto_stat_ids)
    /\ reverse_stat_map = ReverseNames(IdNames(roto_stat_ids))

----------------------------------------------------------------------------
(* The public methods.                                                     *)

\* the team_stats arguments calculate_standings is called with: the totals
\* of some of the teams
CustomStats == {[t \in S |-> heap.ld[t]] : S \in (SUBSET TeamSet) \ {TeamSet}}

\* the (my_players, their_players) lists simulate_trade is called with: every
\* player for themself, one for one, two for one, nothing for one
TradedPlayers ==
    {<<<<p>>, <<p>>>> : p \in PlayerSet}
    \cup {<< <<"p1">>, <<"p3">> >>, << <<"p3">>, <<"p1">> >>,
          << <<"p2">>, <<"p4">> >>, << <<"p1", "p2">>, <<"p3">> >>,
          << <<>>, <<"p3">> >>}

\* calculator.calculate_standings()
CalculateStandings ==
    /\ op = "idle"
    /\ op' = "calculate_standings"
    /\ args' = <<>>
    /\ ret' = calculate_standings(heap.ld)
    /\ UNCHANGED <<snapshot, heap, evals>>

\* calculator.calculate_standings(team_stats)
CalculateStandingsCustom ==
    /\ op = "idle"
    /\ \E team_stats \in CustomStats :
        /\ op' = "calculate_standings_custom"
        /\ args' = <<team_stats>>
        /\ ret' = calculate_standings(team_stats)
        /\ UNCHANGED <<snapshot, heap, evals>>

\* calculator.get_standings_gaps(team_key)
GetStandingsGaps ==
    /\ op = "idle"
    /\ \E team_key \in TeamSet \cup {AbsentTeam} :
        /\ op' = "get_standings_gaps"
        /\ args' = <<team_key>>
        /\ ret' = get_standings_gaps(heap.ld, team_key)
        /\ UNCHANGED <<snapshot, heap, evals>>

\* calculator.get_safety_margins(team_key)
GetSafetyMargins ==
    /\ op = "idle"
    /\ \E team_key \in TeamSet \cup {AbsentTeam} :
        /\ op' = "get_safety_margins"
        /\ args' = <<team_key>>
        /\ ret' = get_safety_margins(heap.ld, team_key)
        /\ UNCHANGED <<snapshot, heap, evals>>

\* calculator.get_roto_standings_table()
GetRotoStandingsTable ==
    /\ op = "idle"
    /\ op' = "get_roto_standings_table"
    /\ args' = <<>>
    /\ ret' = get_roto_standings_table(heap.ld)
    /\ UNCHANGED <<snapshot, heap, evals>>

\* sim.project_player_ros(player_key)
ProjectPlayerRos ==
    /\ op = "idle"
    /\ \E player_key \in PlayerSet :
        /\ op' = "project_player_ros"
        /\ args' = <<player_key>>
        /\ ret' = project_player_ros(player_key)
        /\ UNCHANGED <<snapshot, heap, evals>>

\* sim.simulate_trade(my_players, their_players, my_team_key, their_team_key)
SimulateTrade ==
    /\ op = "idle"
    /\ \E players \in TradedPlayers,
          my_team_key \in TeamSet \cup {AbsentTeam}, their_team_key \in TeamSet :
        \E r \in {simulate_trade(heap, players[1], players[2],
                                  my_team_key, their_team_key)} :
            /\ op' = "simulate_trade"
            /\ args' = <<players[1], players[2], my_team_key, their_team_key>>
            /\ ret' = r.result
            /\ heap' = r.heap
            /\ UNCHANGED <<snapshot, evals>>

\* sim.find_best_trades(my_team_key, max_results)
FindBestTrades ==
    /\ op = "idle"
    /\ \E my_team_key \in TeamSet \cup {AbsentTeam},
          max_results \in (-1..MaxResults) \cup {DefaultMaxResults} :
        \E r \in {find_best_trades(heap, my_team_key, max_results)} :
            /\ op' = "find_best_trades"
            /\ args' = <<my_team_key, max_results>>
            /\ ret' = r.result
            /\ heap' = r.heap
            /\ UNCHANGED <<snapshot, evals>>

\* the caller drops the result; the copy simulate_trade built was local to
\* the call and is gone
Return ==
    /\ op # "idle"
    /\ op' = "idle"
    /\ args' = <<>>
    /\ ret' = <<>>
    /\ heap' = [heap EXCEPT !.copy = EmptyDict]
    /\ UNCHANGED <<snapshot, evals>>

Next ==
    \/ CalculateStandings
    \/ CalculateStandingsCustom
    \/ GetStandingsGaps
    \/ GetSafetyMargins
    \/ GetRotoStandingsTable
    \/ Return

Spec == Init /\ [][Next]_vars

NextTrade ==
    \/ CalculateStandings
    \/ CalculateStandingsCustom
    \/ GetStandingsGaps
    \/ GetSafetyMargins
    \/ GetRotoStandingsTable
    \/ ProjectPlayerRos
    \/ SimulateTrade
    \/ FindBestTrades
    \/ Return

SpecTrade == InitTrade /\ [][NextTrade]_vars

----------------------------------------------------------------------------
(* simulate_trade evaluations run on different threads over one snapshot,  *)
(* their statements interleaved.  Every evaluation has its own locals; the *)
(* league data, and with it the object heap.ld, is shared.                 *)

\* the threads
Evaluations == {1, 2}

\* the locals of an evaluation that has been called and has run no statement
\* yet.  alone records what the same call returns when nothing else runs;
\* interleaved records whether the evaluation ran a statement while another
\* one was under way.
NewEvaluation(my_players, their_players, my_team_key, their_team_key) ==
    [pc |-> "old",
     my_players |-> my_players,
     their_players |-> their_players,
     my_team_key |-> my_team_key,
     their_team_key |-> their_team_key,
     old_my_score |-> R(0),
     old_their_score |-> R(0),
     ref |-> "none",
     own |-> EmptyDict,
     i |-> 0,
     result |-> <<>>,
     alone |-> simulate_trade(heap, my_players, their_players,
                              my_team_key, their_team_key).result,
     interleaved |-> FALSE]

\* the object the local new_team_stats of evaluation ev refers to
Deref(ev) == IF ev.ref = "ld" THEN heap.ld ELSE ev.own

\* another evaluation has run a statement and has not returned
OthersUnderWay(e) ==
    \E o \in Evaluations \ {e} : evals[o].pc \notin {"old", "done"}

\* evaluation e goes on with locals ev after storing nts in the object its
\* new_team_stats refers to
Store(e, ev, nts) ==
    LET next == [ev EXCEPT !.interleaved = @ \/ OthersUnderWay(e)]
    IN  IF ev.ref = "ld"
        THEN /\ heap' = [heap EXCEPT !.ld = nts]
             /\ evals' = [evals EXCEPT ![e] = next]
        ELSE /\ heap' = heap
             /\ evals' = [evals EXCEPT ![e] = [next EXCEPT !.own = nts]]

\* a caller hands one candidate trade of my_team_key to each thread
StartEvaluations ==
    /\ op = "idle"
    /\ \E my_team_key \in TeamSet :
        \E cands \in {Candidates(1, my_team_key)} :
            \E pick \in [Evaluations -> DOMAIN cands] :
                /\ evals' = [e \in Evaluations |->
                                NewEvaluation(<<cands[pick[e]].my_pk>>,
                                              <<cands[pick[e]].their_pk>>,
                                              my_team_key,
                                              cands[pick[e]].opp_team_key)]
                /\ args' = <<my_team_key>>
    /\ op' = "evaluating"
    /\ ret' = <<>>
    /\ UNCHANGED <<snapshot, heap>>

\* lines 91-93: the standings of the shared totals
EvalOldStandings(e) ==
    /\ op = "evaluating"
    /\ evals[e].pc = "old"
    /\ \E old_result \in {calculate_standings(heap.ld)} :
           LET ev == evals[e]
           IN  evals' = [evals EXCEPT ![e] =
                   [ev EXCEPT !.pc = "copy",
                              !.old_my_score = ScoreOf(old_result, ev.my_team_key),
                              !.old_their_score = ScoreOf(old_result, ev.their_team_key),
                              !.interleaved = @ \/ OthersUnderWay(e)]]
    /\ UNCHANGED <<snapshot, heap, op, args, ret>>

\* line 96: new_team_stats = deepcopy(self.ld.team_stats)
EvalCopy(e) ==
    /\ op = "evaluating"
    /\ evals[e].pc = "copy"
    /\ \E c \in {deepcopy([ld |-> heap.ld, copy |-> EmptyDict], "ld")} :
           /\ heap' = [heap EXCEPT !.ld = c.heap.ld]
           /\ evals' = [evals EXCEPT ![e] =
                           [@ EXCEPT !.pc = IF Len(roto_stat_ids) > 0
                                            THEN "adjust" ELSE "recalc",
                                     !.ref = c.ref,
                                     !.own = c.heap.copy,
                                     !.i = 1,
                                     !.interleaved = @ \/ OthersUnderWay(e)]]
    /\ UNCHANGED <<snapshot, op, args, ret>>

\* lines 110-135: one iteration of the loop over roto_stat_ids
EvalAdjust(e) ==
    /\ op = "evaluating"
    /\ evals[e].pc = "adjust"
    /\ LET ev == evals[e]
           last == ev.i = Len(roto_stat_ids)
       IN  Store(e, [ev EXCEPT !.pc = IF last THEN "recalc" ELSE "adjust",
                               !.i = IF last THEN 1 ELSE ev.i + 1],
                 AdjustIteration(Deref(ev), roto_stat_ids[ev.i],
                                 ev.my_players, ev.their_players,
                                 ev.my_team_key, ev.their_team_key))
    /\ UNCHANGED <<snapshot, op, args, ret>>

\* lines 138-169: one iteration of the loop over PERCENTAGE_COMPONENTS
EvalRecalc(e) ==
    /\ op = "evaluating"
    /\ evals[e].pc = "recalc"
    /\ LET ev == evals[e]
           last == ev.i = Len(PERCENTAGE_COMPONENTS)
       IN  Store(e, [ev EXCEPT !.pc = IF last THEN "score" ELSE "recalc",
                               !.i = IF last THEN 1 ELSE ev.i + 1],
                 RecalcIteration(Deref(ev), PERCENTAGE_COMPONENTS[ev.i],
                                 ev.my_players, ev.their_players,
                                 ev.my_team_key, ev.their_team_key))
    /\ UNCHANGED <<snapshot, op, args, ret>>

\* lines 172-195: the standings of new_team_stats and the returned dict
EvalScore(e) ==
    /\ op = "evaluating"
    /\ evals[e].pc = "score"
    /\ LET ev == evals[e]
       IN  \E new_result \in {calculate_standings(Deref(ev))} :
               LET new_my_score == ScoreOf(new_result, ev.my_team_key)
                   new_their_score == ScoreOf(new_result, ev.their_team_key)
               IN  evals' = [evals EXCEPT ![e] =
                       [ev EXCEPT
                           !.pc = "done",
                           !.interleaved = @ \/ OthersUnderWay(e),
                           !.result =
                               [my_old_score |-> ev.old_my_score,
                                my_new_score |-> new_my_score,
                                my_delta |-> RSub(new_my_score, ev.old_my_score),
                                their_old_score |-> ev.old_their_score,
                                their_new_score |-> new_their_score,
                                their_delta |-> RSub(new_their_score, ev.old_their_score),
                                my_players_traded |-> ev.my_players,
                                their_players_traded |-> ev.their_players]]]
    /\ UNCHANGED <<snapshot, heap, op, args, ret>>

\* every thread has returned; the caller collects the results
CollectEvaluations ==
    /\ op = "evaluating"
    /\ \A e \in Evaluations : evals[e].pc = "done"
    /\ op' = "idle"
    /\ args' = <<>>
    /\ ret' = <<>>
    /\ evals' = <<>>
    /\ UNCHANGED <<snapshot, heap>>

NextConcurrent ==
    \/ StartEvaluations
    \/ \E e \in Evaluations : EvalOldStandings(e)
    \/ \E e \in Evaluations : EvalCopy(e)
    \/ \E e \in Evaluations : EvalAdjust(e)
    \/ \E e \in Evaluations : EvalRecalc(e)
    \/ \E e \in Evaluations : EvalScore(e)
    \/ CollectEvaluations

\* the league of InitTrade with complete or sparse totals and PTS averages
\* of 1 for p1 and p3
InitConcurrent ==
    /\ roto_stat_ids = <<"5", "12", "19">>
    /\ negative_stats = {"19"}
    /\ teams = TeamKeys
    /\ \E v1 \in 0..MaxVal, shape \in {"full", "sparse"} :
           heap = [ld |-> TradeTotals(v1, shape), copy |-> EmptyDict]
    /\ rosters = [t1 |-> <<"p1", "p2">>, t2 |-> <<"p3">>, t3 |-> <<"p4">>]
    /\ player_stats = TradeAverages(1, 1)
    /\ remaining_games \in 1..MaxGames
    /\ op = "idle"
    /\ args = <<>>
    /\ ret = <<>>
    /\ evals = <<>>
    /\ stat_id_map = IdNames(roto_stat_ids)
    /\ reverse_stat_map = ReverseNames(IdNames(roto_stat_ids))

SpecConcurrent == InitConcurrent /\ [][NextConcurrent]_vars

----------------------------------------------------------------------------
(* LeagueData._compute_team_stats: team totals built from the season       *)
(* totals of the rostered players.  player_stats holds season totals here. *)

\* the stats some player of the list has a season total for
RosterStatIds(pkeys) == UNION {DOMAIN averages_of(pkeys[i]) : i \in DOMAIN pkeys}

\* sum over the list pkeys of player_stats.get(pkey, {}).get(stat_id, 0)
RECURSIVE SeasonSum(_, _)
SeasonSum(pkeys, stat_id) ==
    IF pkeys = <<>> THEN R(0)
    ELSE RAdd(Get0(averages_of(pkeys[1]), stat_id), SeasonSum(Tail(pkeys), stat_id))

\* the players' percentages added up like a counting stat
SummedPercentage(pkeys, c) == SeasonSum(pkeys, c.pct)

\* made / attempted from the summed components, 0 without attempts
DerivedPercentage(pkeys, c) ==
    Percentage(SeasonSum(pkeys, c.made), SeasonSum(pkeys, c.attempted))

\* one team's totals: every counting stat summed over the roster, every
\* percentage derived from its components
TeamTotals(team_key) ==
    LET pkeys == get_team_player_keys(team_key)
        counting == RosterStatIds(pkeys) \ PctStatIds
    IN  [stat_id \in counting \cup PctStatIds |->
            IF stat_id \in PctStatIds
            THEN DerivedPercentage(pkeys,
                     PERCENTAGE_COMPONENTS[CHOOSE i \in DOMAIN PERCENTAGE_COMPONENTS :
                                               PERCENTAGE_COMPONENTS[i].pct = stat_id])
            ELSE SeasonSum(pkeys, stat_id)]

compute_team_stats == [team_key \in DOMAIN rosters |-> TeamTotals(team_key)]

\* ld._compute_team_stats(): self.team_stats is set to the computed totals
ComputeTeamStats ==
    /\ op = "idle"
    /\ op' = "compute_team_stats"
    /\ args' = <<>>
    /\ ret' = None
    /\ heap' = [heap EXCEPT !.ld = compute_team_stats]
    /\ UNCHANGED <<snapshot, evals>>

NextCompute ==
    \/ ComputeTeamStats
    \/ Return

\* season totals: GP ("0"), FGM, FGA, FG% and PTS of p1 and p2, with
\* FG% = FGM / FGA for each player; p3 without PTS; nothing recorded for p4
SeasonTotals(gp1, m1, a1, m2, a2, pts1) ==
    [p1 |-> ("0" :> R(gp1)) @@ ("3" :> R(m1)) @@ ("4" :> R(a1))
            @@ ("5" :> Percentage(R(m1), R(a1))) @@ ("12" :> R(pts1)),
     p2 |-> ("0" :> R(1)) @@ ("3" :> R(m2)) @@ ("4" :> R(a2))
            @@ ("5" :> Percentage(R(m2), R(a2))) @@ ("12" :> R(1)),
     p3 |-> ("0" :> R(1)) @@ ("3" :> R(1)) @@ ("4" :> R(2))
            @@ ("5" :> Percentage(R(1), R(2)))]

\* the league of InitTrade before any team totals exist, the players'
\* season totals in every combination with made <= attempted
InitCompute ==
    /\ roto_stat_ids = <<"5", "12", "19">>
    /\ negative_stats = {"19"}
    /\ teams = TeamKeys
    /\ heap = [ld |-> EmptyDict, copy |-> EmptyDict]
    /\ rosters = [t1 |-> <<"p1", "p2">>, t2 |-> <<"p3">>, t3 |-> <<"p4">>]
    /\ \E gp1 \in 1..MaxGames, a1 \in 0..MaxVal, a2 \in 0..MaxVal, pts1 \in 0..MaxVal :
           \E m1 \in 0..a1, m2 \in 0..a2 :
               player_stats = SeasonTotals(gp1, m1, a1, m2, a2, pts1)
    /\ remaining_games = DefaultRemainingGames
    /\ op = "idle"
    /\ args = <<>>
    /\ ret = <<>>
    /\ evals = <<>>
    /\ stat_id_map = IdNames(roto_stat_ids)
    /\ reverse_stat_map = ReverseNames(IdNames(roto_stat_ids))

SpecCompute == InitCompute /\ [][NextCompute]_vars

----------------------------------------------------------------------------
(* simulate_trade in leagues with other scoring categories, the components *)
(* FGM, FGA, FTM and FTA among them.                                       *)

\* the values of roto_stat_ids the leagues are set up with
CategoryChoices ==
    {<<"5", "12", "19">>, <<"3", "5", "12">>, <<"4", "8", "19">>, <<"6", "7", "12">>}

NextCategories ==
    \/ SimulateTrade
    \/ Return

\* the league of InitTrade with complete or sparse totals, under each choice
\* of scoring categories
InitCategories ==
    /\ roto_stat_ids \in CategoryChoices
    /\ negative_stats = {"19"}
    /\ teams = TeamKeys
    /\ \E v1 \in 0..MaxVal, shape \in {"full", "sparse"} :
           heap = [ld |-> TradeTotals(v1, shape), copy |-> EmptyDict]
    /\ rosters = [t1 |-> <<"p1", "p2">>, t2 |-> <<"p3">>, t3 |-> <<"p4">>]
    /\ \E a1 \in 0..MaxAvg : player_stats = TradeAverages(a1, 1)
    /\ remaining_games \in 1..MaxGames
    /\ op = "idle"
    /\ args = <<>>
    /\ ret = <<>>
    /\ evals = <<>>
    /\ stat_id_map = IdNames(roto_stat_ids)
    /\ reverse_stat_map = ReverseNames(IdNames(roto_stat_ids))

SpecCategories == InitCategories /\ [][NextCategories]_vars

----------------------------------------------------------------------------
(* LeagueData.fetch_settings called again and again on one LeagueData      *)

\* catalogs list at most MaxCatalogLen stats
MaxCatalogLen == 2

\* the entries of a response of client.get_stat_categories_raw: a stat
\* without id, PTS or TO, display-only or not, lower-is-better or not
CatalogEntries ==
    LET display_name(id) == CASE id = "12" -> "PTS" [] id = "19" -> "TO" [] OTHER -> "Stat"
    IN  {[stat_id |-> id, display_name |-> display_name(id),
          is_only_display_stat |-> d, sort_order |-> o] :
            id \in {"", "12", "19"}, d \in {"0", "1"}, o \in {"0", "1"}}

\* the responses: lists of entries for different stats
Catalogs ==
    UNION {{c \in [1..n -> CatalogEntries] :
               \A i \in 1..n, j \in 1..n : i # j => c[i].stat_id # c[j].stat_id} :
              n \in 0..MaxCatalogLen}

\* ld.fetch_settings(), the API answering raw_categories
FetchSettings ==
    /\ op = "idle"
    /\ \E raw_categories \in Catalogs :
        \E r \in {fetch_settings(raw_categories)} :
            /\ op' = "fetch_settings"
            /\ args' = <<raw_categories>>
            /\ ret' = None
            /\ stat_id_map' = r.stat_id_map
            /\ roto_stat_ids' = r.roto_stat_ids
            /\ negative_stats' = r.negative_stats
            /\ reverse_stat_map' = r.reverse_stat_map
            /\ UNCHANGED <<teams, heap, rosters, player_stats, remaining_games, evals>>

NextSettings ==
    \/ FetchSettings
    \/ Return

\* LeagueData.__init__ (lines 55-64): everything empty
InitSettings ==
    /\ stat_id_map = EmptyDict
    /\ reverse_stat_map = EmptyDict
    /\ roto_stat_ids = <<>>
    /\ negative_stats = {}
    /\ teams = <<>>
    /\ heap = [ld |-> EmptyDict, copy |-> EmptyDict]
    /\ rosters = EmptyDict
    /\ player_stats = EmptyDict
    /\ remaining_games = DefaultRemainingGames
    /\ op = "idle"
    /\ args = <<>>
    /\ ret = <<>>
    /\ evals = <<>>

SpecSettings == InitSettings /\ [][NextSettings]_vars

----------------------------------------------------------------------------
(* Properties of calculate_standings.                                      *)

StandingsReturned == op \in {"calculate_standings", "calculate_standings_custom"}

\* the team_stats mapping the call ranked
Ranked == IF op = "calculate_standings" THEN heap.ld ELSE args[1]

\* the sum of the values of function f
RECURSIVE FnSum(_)
FnSum(f) ==
    IF DOMAIN f = {} THEN R(0)
    ELSE LET x == CHOOSE x \in DOMAIN f : TRUE
         IN  RAdd(f[x], FnSum([y \in DOMAIN f \ {x} |-> f[y]]))

\* the positions of ranking rk whose value equals the value at position i
TieBlock(rk, i) == {k \in DOMAIN rk : REq(rk[k].val, rk[i].val)}

NoTies(rk) == \A i \in DOMAIN rk : TieBlock(rk, i) = {i}

\* the categories of the returned rankings in which team tk is ranked
RankedIn(tk) ==
    {s \in DOMAIN ret.rankings : \E i \in DOMAIN ret.rankings[s] : ret.rankings[s][i].tk = tk}

\* C1: in every category of the returned rankings the rank_points of the
\* teams ranked there sum to M(M+1)/2, M being the number of teams ranked in
\* that category, also when some team does not report the stat.
C1_PointsSumToTriangle ==
    StandingsReturned =>
        \A s \in DOMAIN ret.rankings :
            LET rk == ret.rankings[s]
                M == Len(rk)
            IN  REq(RSum([i \in 1..M |-> rk[i].pts]), Frac(M * (M + 1), 2))

\* C2: the teams of a maximal run of equal values all receive the mean of
\* the point values of the sorted positions the run occupies, position p of
\* a mapping of N teams being worth N - p + 1; the run is contiguous.
C2_TiesShareMeanPoints ==
    StandingsReturned =>
        \A s \in DOMAIN ret.rankings :
            LET rk == ret.rankings[s]
                N == Cardinality(DOMAIN Ranked)
            IN  \A i \in DOMAIN rk :
                    LET block == TieBlock(rk, i)
                    IN  /\ \A a \in block, b \in block, k \in DOMAIN rk :
                               a < k /\ k < b => k \in block
                        /\ REq(rk[i].pts,
                               RDiv(FnSum([p \in block |-> R(N - p + 1)]),
                                    R(Cardinality(block))))

\* a category where two teams are tied and a third is not
C2_Witness ==
    /\ StandingsReturned
    /\ \E s \in DOMAIN ret.rankings :
           /\ Len(ret.rankings[s]) = 3
           /\ \E i \in 1..3 : Cardinality(TieBlock(ret.rankings[s], i)) = 2

\* C3: every rank_points lies between 1 and N, the number of teams of the
\* mapping, and in a category without ties the k-th placed team receives
\* N - k + 1 and the worst-placed ranked team receives 1.
C3_PointsFromNDownToOne ==
    StandingsReturned =>
        \A s \in DOMAIN ret.rankings :
            LET rk == ret.rankings[s]
                N == Cardinality(DOMAIN Ranked)
            IN  /\ \A i \in DOMAIN rk : RLe(R(1), rk[i].pts) /\ RLe(rk[i].pts, R(N))
                /\ NoTies(rk) =>
                       /\ \A k \in DOMAIN rk : REq(rk[k].pts, R(N - k + 1))
                       /\ REq(rk[Len(rk)].pts, R(1))

\* C4: of two teams ranked in a category, the one with the strictly better
\* value (higher for a positive stat, lower for a negative stat) has at
\* least the rank_points of the other.
C4_BetterValueNoFewerPoints ==
    StandingsReturned =>
        \A s \in DOMAIN ret.rankings :
            LET rk == ret.rankings[s]
            IN  \A i \in DOMAIN rk, j \in DOMAIN rk :
                    (IF s \in negative_stats THEN RLt(rk[i].val, rk[j].val)
                                             ELSE RLt(rk[j].val, rk[i].val))
                    => RLe(rk[j].pts, rk[i].pts)

\* a negative and a positive category, each with two teams of different values
C4_Witness ==
    /\ StandingsReturned
    /\ \E s \in DOMAIN ret.rankings, u \in DOMAIN ret.rankings :
           /\ s \in negative_stats
           /\ u \notin negative_stats
           /\ \E i \in DOMAIN ret.rankings[s], j \in DOMAIN ret.rankings[s] :
                  RLt(ret.rankings[s][i].val, ret.rankings[s][j].val)
           /\ \E i \in DOMAIN ret.rankings[u], j \in DOMAIN ret.rankings[u] :
                  RLt(ret.rankings[u][i].val, ret.rankings[u][j].val)

\* C5: roto_scores has exactly the team keys of the mapping, and a team's
\* score is the sum of its category_points over exactly the categories in
\* which it is ranked (0 if there is none).
C5_ScoreIsSumOfCategoryPoints ==
    StandingsReturned =>
        /\ DOMAIN ret.roto_scores = DOMAIN Ranked
        /\ \A tk \in DOMAIN Ranked :
               /\ DOMAIN ret.category_points[tk] = RankedIn(tk)
               /\ REq(ret.roto_scores[tk],
                      FnSum([s \in RankedIn(tk) |-> ret.category_points[tk][s]]))

\* one team ranked in two categories, one in a single category, one in none
C5_Witness ==
    /\ StandingsReturned
    /\ \E a \in DOMAIN Ranked, b \in DOMAIN Ranked, c \in DOMAIN Ranked :
           /\ Cardinality(RankedIn(a)) = 2
           /\ Cardinality(RankedIn(b)) = 1
           /\ RankedIn(c) = {}
           /\ ret.roto_scores[c] = R(0)

----------------------------------------------------------------------------
(* Claims about TradeSimulator                                             *)

SimulateReturned == op = "simulate_trade"

FindReturned == op = "find_best_trades"

\* C6: a trade that gives and receives the same single player between two
\* different teams of the snapshot changes neither team's score.
C6_IdentityTradeIsNeutral ==
    ( /\ SimulateReturned
      /\ Len(args[1]) = 1
      /\ args[1] = args[2]
      /\ args[3] \in TeamSet
      /\ args[3] # args[4] )
    => /\ ret.my_delta = R(0)
       /\ ret.their_delta = R(0)

\* C7: no operation changes the snapshot: the team totals the league data
\* refers to, the rosters and the player statistics keep their values across
\* every step.
C7_SnapshotNeverMutated ==
    [][ /\ heap'.ld = heap.ld
        /\ rosters' = rosters
        /\ player_stats' = player_stats
        /\ roto_stat_ids' = roto_stat_ids
        /\ negative_stats' = negative_stats
        /\ teams' = teams
        /\ remaining_games' = remaining_games ]_vars

\* a simulation has returned whose working copy differs from the snapshot
C7_Witness ==
    /\ SimulateReturned
    /\ heap.copy # EmptyDict
    /\ heap.copy # heap.ld

\* a team's row has the ratio of component c consistent with its made and
\* attempted totals: made / attempted, or 0 when attempted is 0
RatioConsistent(row, c) ==
    /\ {c.pct, c.made, c.attempted} \subseteq DOMAIN row
    /\ IF row[c.attempted] = R(0)
       THEN row[c.pct] = R(0)
       ELSE REq(row[c.pct], RDiv(row[c.made], row[c.attempted]))

AllConsistent(team_stats) ==
    \A tk \in DOMAIN team_stats, i \in DOMAIN PERCENTAGE_COMPONENTS :
        RatioConsistent(team_stats[tk], PERCENTAGE_COMPONENTS[i])

\* each side gives players of its own roster
OwnPlayers ==
    /\ args[3] \in TeamSet
    /\ Range(args[1]) \subseteq Range(get_team_player_keys(args[3]))
    /\ Range(args[2]) \subseteq Range(get_team_player_keys(args[4]))

\* C8: from a snapshot whose ratios are consistent, the totals a simulated
\* trade scores have every team's FG% and FT% equal to made / attempted of
\* its adjusted totals, and 0 when attempted is 0.  Stated for trades in
\* which each side gives players of its own roster.
C8_RatiosRecomputedFromComponents ==
    (SimulateReturned /\ OwnPlayers /\ AllConsistent(heap.ld))
        => AllConsistent(heap.copy)

\* C9: every trade find_best_trades returns has my_delta > 0.
C9_OnlyImprovingTrades ==
    FindReturned => \A i \in DOMAIN ret : RLt(R(0), ret[i].my_delta)

\* a search that returned trades and dropped at least one candidate, its
\* result not cut by max_results
C9_Witness ==
    /\ FindReturned
    /\ args[1] \in TeamSet
    /\ args[2] = DefaultMaxResults
    /\ Len(ret) > 0
    /\ Len(ret) < Len(Candidates(1, args[1]))

ImprovingTrades ==
    SortTrades(SimulateAll(heap, Candidates(1, args[1]), 1, args[1], <<>>).all_trades)

\* C11 as stated: for every integer max_results the number of results is at
\* most max_results.
C11_AtMostMaxResults ==
    FindReturned => Len(ret) <= args[2]

\* C11: for max_results >= 0 the number of results is at most max_results
\* (the first max_results of the sorted improving trades, or all of them if
\* there are fewer); for max_results < 0 the result is the sorted improving
\* trades without their last -max_results entries.
C11_AtMostMaxResultsWhenNonNegative ==
    FindReturned =>
        LET n == Len(ImprovingTrades)
        IN  /\ args[2] >= 0 =>
                /\ Len(ret) <= args[2]
                /\ Len(ret) = IF n < args[2] THEN n ELSE args[2]
            /\ args[2] < 0 =>
                Len(ret) = IF n + args[2] > 0 THEN n + args[2] ELSE 0
            /\ ret = SubSeq(ImprovingTrades, 1, Len(ret))

\* a search whose improving trades outnumber a positive max_results
C11_Witness ==
    /\ FindReturned
    /\ args[2] > 0
    /\ Len(ret) = args[2]
    /\ Len(ImprovingTrades) > args[2]

----------------------------------------------------------------------------
(* Claims about the gaps, margins and table of RotoCalculator              *)

GapsReturned == op = "get_standings_gaps"

MarginsReturned == op = "get_safety_margins"

TableReturned == op = "get_roto_standings_table"

\* the rankings of the snapshot's totals
LeagueRankings == calculate_standings(heap.ld).rankings

\* the categories in whose ranked list team_key appears
CategoriesOf(team_key) ==
    {s \in DOMAIN LeagueRankings :
        \E i \in DOMAIN LeagueRankings[s] : LeagueRankings[s][i].tk = team_key}

\* C12: get_standings_gaps has an entry for exactly the categories in which
\* the team is ranked; there the team's current_rank is its position in the
\* ranked list, to_gain_rank and next_above_value are None exactly when that
\* position is the first, and to_lose_rank and next_below_value are None
\* exactly when it is the last, tied values or not.
C12_FirstHasNoGainLastHasNoLoss ==
    GapsReturned =>
        /\ DOMAIN ret = CategoriesOf(args[1])
        /\ \A s \in DOMAIN ret :
               LET ranked == LeagueRankings[s]
                   g == ret[s]
               IN  /\ g.current_rank \in DOMAIN ranked
                   /\ ranked[g.current_rank].tk = args[1]
                   /\ (g.current_rank = 1) = (g.to_gain_rank = None)
                   /\ (g.current_rank = 1) = (g.next_above_value = None)
                   /\ (g.current_rank = Len(ranked)) = (g.to_lose_rank = None)
                   /\ (g.current_rank = Len(ranked)) = (g.next_below_value = None)

\* the team is first of three in one category while sharing its value with
\* the next team, and last of three in another while sharing its value with
\* the team before it
C12_Witness ==
    /\ GapsReturned
    /\ \E s \in DOMAIN ret, u \in DOMAIN ret :
           /\ Len(LeagueRankings[s]) = 3
           /\ ret[s].current_rank = 1
           /\ ret[s].next_below_value = ret[s].current_value
           /\ ret[s].to_gain_rank = None
           /\ Len(LeagueRankings[u]) = 3
           /\ ret[u].current_rank = 3
           /\ ret[u].next_above_value = ret[u].current_value
           /\ ret[u].to_lose_rank = None

\* C13: get_safety_margins has exactly one entry per category in which the
\* team is ranked, carrying that category's to_lose_rank as safety_margin
\* and to_gain_rank as opportunity; opportunity does not decrease along the
\* list and every None opportunity comes after every numeric one.
C13_MarginsSortedByOpportunity ==
    MarginsReturned =>
        LET gaps == get_standings_gaps(heap.ld, args[1])
        IN  /\ Len(ret) = Cardinality(CategoriesOf(args[1]))
            /\ {ret[i].stat_id : i \in DOMAIN ret} = CategoriesOf(args[1])
            /\ \A i \in DOMAIN ret :
                   /\ ret[i].safety_margin = gaps[ret[i].stat_id].to_lose_rank
                   /\ ret[i].opportunity = gaps[ret[i].stat_id].to_gain_rank
            /\ \A i \in DOMAIN ret, j \in DOMAIN ret :
                   i < j =>
                       /\ ret[i].opportunity = None => ret[j].opportunity = None
                       /\ (ret[i].opportunity # None /\ ret[j].opportunity # None)
                              => RLe(ret[i].opportunity, ret[j].opportunity)

\* the later scoring category comes first because its opportunity is the
\* smaller one
C13_Witness ==
    /\ MarginsReturned
    /\ Len(ret) = 2
    /\ ret[1].stat_id = roto_stat_ids[2]
    /\ ret[2].stat_id = roto_stat_ids[1]
    /\ ret[1].opportunity # None
    /\ ret[2].opportunity # None
    /\ RLt(ret[1].opportunity, ret[2].opportunity)

\* the position of team_key in the league's team mapping
TeamPosition(team_key) == CHOOSE i \in DOMAIN teams : teams[i] = team_key

\* C14: the table has exactly one entry per team of the league, carrying the
\* team's Roto score; roto_score does not increase along the table, and
\* teams of equal score keep the order of the league's team mapping.
C14_TableSortedAndStable ==
    TableReturned =>
        /\ Len(ret) = Len(teams)
        /\ {ret[i].team_key : i \in DOMAIN ret} = Range(teams)
        /\ \A i \in DOMAIN ret :
               ret[i].roto_score
                   = ScoreOf(calculate_standings(heap.ld), ret[i].team_key)
        /\ \A i \in DOMAIN ret, j \in DOMAIN ret :
               i < j =>
                   /\ RLe(ret[j].roto_score, ret[i].roto_score)
                   /\ REq(ret[i].roto_score, ret[j].roto_score)
                          => TeamPosition(ret[i].team_key) < TeamPosition(ret[j].team_key)

\* the last team of the league leads the table, ahead of two teams of equal
\* score
C14_Witness ==
    /\ TableReturned
    /\ Len(ret) = 3
    /\ ret[1].team_key = teams[3]
    /\ RLt(ret[2].roto_score, ret[1].roto_score)
    /\ REq(ret[2].roto_score, ret[3].roto_score)
    /\ RLt(R(0), ret[2].roto_score)

----------------------------------------------------------------------------
(* Further claims about TradeSimulator                                     *)

ProjectionReturned == op = "project_player_ros"

\* C15: the projection has exactly the stat ids of the player's season
\* averages; FG% ("5") and FT% ("8") keep the average and every other stat
\* is the average times remaining_games; a player with no recorded averages
\* projects to the empty mapping.
C15_ProjectionScalesCountingStats ==
    ProjectionReturned =>
        /\ args[1] \notin DOMAIN player_stats => ret = EmptyDict
        /\ args[1] \in DOMAIN player_stats =>
               LET averages == player_stats[args[1]]
               IN  /\ DOMAIN ret = DOMAIN averages
                   /\ \A stat_id \in DOMAIN ret :
                          IF stat_id \in {"5", "8"}
                          THEN ret[stat_id] = averages[stat_id]
                          ELSE REq(ret[stat_id],
                                   RMul(averages[stat_id], R(remaining_games)))

\* with more than one game remaining, a player who records a nonzero FG% and
\* nonzero PTS
C15_Witness ==
    /\ ProjectionReturned
    /\ remaining_games > 1
    /\ {"5", "12"} \subseteq DOMAIN ret
    /\ ret["5"] = player_stats[args[1]]["5"]
    /\ ret["5"] # R(0)
    /\ RLt(player_stats[args[1]]["12"], ret["12"])

\* the trading teams that have a row in the totals the trade was scored on
TradingTeams == {args[3], args[4]} \cap DOMAIN heap.copy

\* C17: after simulate_trade, a trading team whose post-trade attempted
\* total (FGA or FTA) is 0 has the corresponding percentage (FG% or FT%)
\* equal to 0.
C17_ZeroAttemptsGiveZeroPercentage ==
    SimulateReturned =>
        \A tk \in TradingTeams, i \in DOMAIN PERCENTAGE_COMPONENTS :
            LET c == PERCENTAGE_COMPONENTS[i]
                row == heap.copy[tk]
            IN  /\ {c.made, c.attempted, c.pct} \subseteq DOMAIN row
                /\ row[c.attempted] = R(0) => row[c.pct] = R(0)

\* a team that had attempts before the trade is left with none, and with a
\* nonzero made total
C17_Witness ==
    /\ SimulateReturned
    /\ \E tk \in TradingTeams, i \in DOMAIN PERCENTAGE_COMPONENTS :
           LET c == PERCENTAGE_COMPONENTS[i]
           IN  /\ c.attempted \in DOMAIN heap.ld[tk]
               /\ heap.ld[tk][c.attempted] # R(0)
               /\ heap.copy[tk][c.attempted] = R(0)
               /\ heap.copy[tk][c.made] # R(0)
               /\ heap.copy[tk][c.pct] = R(0)

\* no one-for-one trade of my_team_key's players improves its score
NoImprovingTrade(my_team_key) ==
    LET cands == Candidates(1, my_team_key)
    IN  \A i \in DOMAIN cands :
            ~ RLt(R(0), simulate_trade(heap, <<cands[i].my_pk>>, <<cands[i].their_pk>>,
                                       my_team_key, cands[i].opp_team_key).result.my_delta)

\* a key that names no team, has no totals and no roster
AbsentFromSnapshot(team_key) ==
    /\ team_key \notin Range(teams)
    /\ team_key \notin DOMAIN heap.ld
    /\ team_key \notin DOMAIN rosters

\* C18: for a team key absent from the snapshot get_standings_gaps returns
\* the empty mapping and get_safety_margins and find_best_trades return the
\* empty list; find_best_trades returns the empty list whenever no
\* one-for-one trade has my_delta > 0.
C18_AbsentTeamGivesEmptyResults ==
    /\ (GapsReturned /\ AbsentFromSnapshot(args[1])) => ret = EmptyDict
    /\ (MarginsReturned /\ AbsentFromSnapshot(args[1])) => ret = <<>>
    /\ (FindReturned /\ AbsentFromSnapshot(args[1])) => ret = <<>>
    /\ (FindReturned /\ NoImprovingTrade(args[1])) => ret = <<>>

\* gaps asked for an absent team while every category has a ranking
C18_Witness ==
    /\ GapsReturned
    /\ AbsentFromSnapshot(args[1])
    /\ DOMAIN LeagueRankings = Range(roto_stat_ids)
    /\ ret = EmptyDict

----------------------------------------------------------------------------
(* Further claims about calculate_standings                                *)

\* the teams of the ranked mapping that report stat_id
Reporting(stat_id) == {tk \in DOMAIN Ranked : stat_id \in DOMAIN Ranked[tk]}

\* C16: a category's ranking lists, once each and with their values, exactly
\* the teams that report the stat; a team has category_points for exactly
\* the scoring stats it reports; a category no team reports is absent from
\* rankings; this for every mapping, the empty one included.
C16_MissingStatsAreSkipped ==
    StandingsReturned =>
        /\ DOMAIN ret.rankings
               = {s \in Range(roto_stat_ids) : Reporting(s) # {}}
        /\ \A s \in DOMAIN ret.rankings :
               /\ Len(ret.rankings[s]) = Cardinality(Reporting(s))
               /\ {ret.rankings[s][i].tk : i \in DOMAIN ret.rankings[s]} = Reporting(s)
               /\ \A i \in DOMAIN ret.rankings[s] :
                      ret.rankings[s][i].val = Ranked[ret.rankings[s][i].tk][s]
        /\ DOMAIN ret.category_points = DOMAIN Ranked
        /\ \A tk \in DOMAIN Ranked :
               DOMAIN ret.category_points[tk]
                   = DOMAIN Ranked[tk] \cap Range(roto_stat_ids)

\* a team that reports the second scoring stat but not the first, which
\* another team reports
C16_Witness ==
    /\ StandingsReturned
    /\ \E a \in DOMAIN Ranked, b \in DOMAIN Ranked :
           /\ roto_stat_ids[1] \notin DOMAIN Ranked[a]
           /\ roto_stat_ids[2] \in DOMAIN Ranked[a]
           /\ roto_stat_ids[1] \in DOMAIN Ranked[b]
           /\ DOMAIN ret.category_points[a] = {roto_stat_ids[2]}
           /\ Len(ret.rankings[roto_stat_ids[1]]) < Cardinality(DOMAIN Ranked)

----------------------------------------------------------------------------
(* Claims about concurrent evaluations                                     *)

\* C19: whatever the interleaving of their statements, every evaluation
\* returns exactly what the same call returns when run alone.
C19_InterleavedEvaluationsAgreeWithAlone ==
    op = "evaluating" =>
        \A e \in Evaluations :
            evals[e].pc = "done" => evals[e].result = evals[e].alone

\* two evaluations of different trades, each having run statements while the
\* other was under way, have returned, each with totals different from the
\* snapshot's
C19_Witness ==
    /\ op = "evaluating"
    /\ \A e \in Evaluations :
           /\ evals[e].pc = "done"
           /\ evals[e].interleaved
           /\ Deref(evals[e]) # heap.ld
    /\ evals[1].their_players # evals[2].their_players
    /\ evals[1].own # evals[2].own

----------------------------------------------------------------------------
(* Claims about LeagueData._compute_team_stats                             *)

ComputeReturned == op = "compute_team_stats"

\* the season total of stat_id added up over the players of team_key
RosterTotal(team_key, stat_id) ==
    FnSum([i \in DOMAIN rosters[team_key] |->
              Get0(averages_of(rosters[team_key][i]), stat_id)])

----------------------------------------------------------------------------
(* Claims about the amounts of get_standings_gaps                          *)

\* the distance between two values
Distance(x, y) == IF RLt(x, y) THEN RSub(y, x) ELSE RSub(x, y)

\* C21: in every entry of get_standings_gaps whose team is not first in the
\* category, next_above_value is the value of the team listed just before
\* it, to_gain_rank is the distance between the two values plus 0.001
\* rounded to three decimals, the team's value moved by to_gain_rank in the
\* stat's better direction is strictly better than next_above_value, and
\* to_gain_rank is 0.001 when the two values are equal.
C21_ToGainStrictlySurpassesTeamAbove ==
    GapsReturned =>
        \A s \in DOMAIN ret :
            LET g == ret[s]
                above == LeagueRankings[s][g.current_rank - 1].val
            IN  g.current_rank > 1 =>
                    /\ g.next_above_value = above
                    /\ g.to_gain_rank =
                           Round3(RAdd(Distance(above, g.current_value), Frac(1, 1000)))
                    /\ IF s \in negative_stats
                       THEN RLt(RSub(g.current_value, g.to_gain_rank), above)
                       ELSE RLt(above, RAdd(g.current_value, g.to_gain_rank))
                    /\ REq(above, g.current_value) => g.to_gain_rank = Frac(1, 1000)

\* the team is behind the team above it in a negative stat, tied with the
\* team above it in a positive stat, and in another positive stat behind by
\* an amount that rounding changes
C21_Witness ==
    /\ GapsReturned
    /\ \E s \in DOMAIN ret \cap negative_stats :
           /\ ret[s].current_rank > 1
           /\ RLt(ret[s].next_above_value, ret[s].current_value)
    /\ \E s \in DOMAIN ret \ negative_stats :
           /\ ret[s].current_rank > 1
           /\ ret[s].next_above_value = ret[s].current_value
           /\ ret[s].to_gain_rank = Frac(1, 1000)
    /\ \E s \in DOMAIN ret \ negative_stats :
           /\ ret[s].current_rank > 1
           /\ RAdd(RSub(ret[s].next_above_value, ret[s].current_value), Frac(1, 1000))
                  # ret[s].to_gain_rank

\* C22: in every entry of get_standings_gaps whose team is not last in the
\* category, next_below_value is the value of the team listed just after it
\* and to_lose_rank is the team's value minus that value for a positive stat,
\* that value minus the team's value for a negative stat, rounded to three
\* decimals, and is never negative.
C22_ToLoseIsDirectedDistanceToTeamBelow ==
    GapsReturned =>
        \A s \in DOMAIN ret :
            LET g == ret[s]
                ranked == LeagueRankings[s]
            IN  g.current_rank < Len(ranked) =>
                    LET below == ranked[g.current_rank + 1].val
                    IN  /\ g.next_below_value = below
                        /\ g.to_lose_rank =
                               Round3(IF s \in negative_stats
                                      THEN RSub(below, g.current_value)
                                      ELSE RSub(g.current_value, below))
                        /\ g.to_lose_rank = Round3(Distance(below, g.current_value))
                        /\ RLe(R(0), g.to_lose_rank)

\* the team is ahead of the team below it by a positive amount in a negative
\* stat and by an amount that rounding changes in a positive stat
C22_Witness ==
    /\ GapsReturned
    /\ \E s \in DOMAIN ret \cap negative_stats :
           /\ ret[s].to_lose_rank # None
           /\ RLt(R(0), ret[s].to_lose_rank)
    /\ \E s \in DOMAIN ret \ negative_stats :
           /\ ret[s].to_lose_rank # None
           /\ RSub(ret[s].current_value, ret[s].next_below_value) # ret[s].to_lose_rank

----------------------------------------------------------------------------
(* Claims about the totals simulate_trade builds                           *)

\* the totals simulate_trade built and ranked
ModifiedTotals == heap.copy

\* two different teams of the snapshot have traded
TwoTeamsTraded ==
    /\ SimulateReturned
    /\ args[3] # args[4]
    /\ args[3] \in DOMAIN heap.ld
    /\ args[4] \in DOMAIN heap.ld

\* the projected contributions of the players pkeys to stat_id, added up
ProjectedTotal(pkeys, stat_id) ==
    FnSum([i \in DOMAIN pkeys |-> Get0(project_player_ros(pkeys[i]), stat_id)])

\* the per-game averages of the players pkeys in stat_id times
\* remaining_games, added up
ScaledTotal(pkeys, stat_id) ==
    FnSum([i \in DOMAIN pkeys |->
              RMul(Get0(averages_of(pkeys[i]), stat_id), R(remaining_games))])

\* C23: after a trade between two different teams of the snapshot, for every
\* non-ratio scoring stat both teams report, my team's modified total is its
\* snapshot total minus my players' projections plus their players'
\* projections, their team's is its snapshot total minus their players' plus
\* my players', and the two modified totals add up to what the two snapshot
\* totals add up to.
C23_CountingStatsMoveWithPlayers ==
    TwoTeamsTraded =>
        \A s \in Range(roto_stat_ids) \ PctStatIds :
            LET mine == heap.ld[args[3]]
                theirs == heap.ld[args[4]]
                out == ProjectedTotal(args[1], s)
                in == ProjectedTotal(args[2], s)
            IN  (s \in DOMAIN mine /\ s \in DOMAIN theirs) =>
                    /\ ModifiedTotals[args[3]][s] = RAdd(RSub(mine[s], out), in)
                    /\ ModifiedTotals[args[4]][s] = RAdd(RSub(theirs[s], in), out)
                    /\ RAdd(ModifiedTotals[args[3]][s], ModifiedTotals[args[4]][s])
                           = RAdd(mine[s], theirs[s])

\* C24: after a trade between two different teams of the snapshot, whatever
\* the scoring categories, each of the two teams' FGM, FGA, FTM and FTA
\* totals is its snapshot total (0 when not reported) minus the outgoing
\* players' averages times remaining_games plus the incoming players'
\* averages times remaining_games.
C24_ComponentsAdjustedOnce ==
    TwoTeamsTraded =>
        \A c \in {"3", "4", "6", "7"} :
            LET mine == Get0(heap.ld[args[3]], c)
                theirs == Get0(heap.ld[args[4]], c)
                out == ScaledTotal(args[1], c)
                in == ScaledTotal(args[2], c)
            IN  /\ ModifiedTotals[args[3]][c] = RAdd(RSub(mine, out), in)
                /\ ModifiedTotals[args[4]][c] = RAdd(RSub(theirs, in), out)

----------------------------------------------------------------------------
(* Claims about the trades find_best_trades considers                      *)

\* every one-for-one trade of team my with another team of the league: the
\* other team, my player, their player
OneForOneTrades(my) ==
    UNION {{<<t, a, b>> : a \in Range(get_team_player_keys(my)),
                          b \in Range(get_team_player_keys(t))} :
              t \in Range(teams) \ {my}}

\* what simulate_trade returns for the trade x of team my
OutcomeOf(my, x) == simulate_trade(heap, <<x[2]>>, <<x[3]>>, my, x[1]).result

\* the trades of OneForOneTrades that raise my team's score
ImprovingOneForOne(my) ==
    {x \in OneForOneTrades(my) : RLt(R(0), OutcomeOf(my, x).my_delta)}

\* the trade a returned entry describes
TradeOf(entry) ==
    <<entry.opponent_team_key, entry.my_players_traded[1], entry.their_players_traded[1]>>

\* outcome x ranks strictly above outcome y under (mutually_beneficial,
\* my_delta) descending
RanksAbove(x, y) ==
    LET mx == RLe(R(0), x.their_delta)
        my == RLe(R(0), y.their_delta)
    IN  \/ mx /\ ~ my
        \/ mx = my /\ RLt(y.my_delta, x.my_delta)

\* the returned entries are different improving one-for-one trades of my team
\* with other teams, each with the outcome simulate_trade gives it, in an
\* order in which no entry ranks above an earlier one, and no improving trade
\* left out ranks above a returned one
ReturnsTopImprovingTrades ==
    LET my == args[1]
        returned == {TradeOf(ret[i]) : i \in DOMAIN ret}
    IN  \E all \in {ImprovingOneForOne(my)} :
        \E outcome \in {[x \in all |-> OutcomeOf(my, x)]} :
            /\ returned \subseteq all
            /\ Cardinality(returned) = Len(ret)
            /\ \A i \in DOMAIN ret :
                   LET o == outcome[TradeOf(ret[i])]
                   IN  /\ ret[i].opponent_team_key # my
                       /\ ret[i].my_delta = o.my_delta
                       /\ ret[i].their_delta = o.their_delta
                       /\ ret[i].my_new_score = o.my_new_score
                       /\ ret[i].their_new_score = o.their_new_score
            /\ \A i \in DOMAIN ret, j \in DOMAIN ret :
                   i < j => ~ RanksAbove(ret[j], ret[i])
            /\ \A x \in all \ returned :
                   \A i \in DOMAIN ret : ~ RanksAbove(outcome[x], ret[i])

\* C25 as stated: for every integer k the result is the first k of the
\* improving one-for-one trades in ranking order: it has k entries, or all
\* the improving trades if there are fewer than k, and none when k is not
\* positive.
C25_FirstKOfAllImprovingTrades ==
    FindReturned =>
        LET n == Cardinality(ImprovingOneForOne(args[1]))
            k == IF args[2] > 0 THEN args[2] ELSE 0
        IN  /\ ReturnsTopImprovingTrades
            /\ Len(ret) = IF n < k THEN n ELSE k

\* C25: the result consists of different improving one-for-one trades of my
\* team with other teams in ranking order, no improving trade left out
\* ranking above a returned one; for k >= 0 it has k entries, or all the
\* improving trades if there are fewer, and for k < 0 it has all of them but
\* the last -k.
C25_FirstKOfAllImprovingTradesWhenNonNegative ==
    FindReturned =>
        LET n == Cardinality(ImprovingOneForOne(args[1]))
            k == args[2]
        IN  /\ ReturnsTopImprovingTrades
            /\ k >= 0 => Len(ret) = IF n < k THEN n ELSE k
            /\ k < 0 => Len(ret) = IF n + k > 0 THEN n + k ELSE 0

\* a search cut by k that returned trades with two different opponents and
\* left out an improving trade
C25_Witness ==
    /\ FindReturned
    /\ args[2] > 0
    /\ Len(ret) = args[2]
    /\ Cardinality(ImprovingOneForOne(args[1])) > args[2]
    /\ \E i \in DOMAIN ret, j \in DOMAIN ret :
           ret[i].opponent_team_key # ret[j].opponent_team_key

----------------------------------------------------------------------------
(* Claims about calculate_standings on a supplied mapping                  *)

CustomReturned == op = "calculate_standings_custom"

\* in the mapping team_stats team a reports every scoring category, so does
\* team b, and a's value is strictly better than b's in each
Dominates(team_stats, a, b) ==
    \A s \in Range(roto_stat_ids) :
        /\ s \in DOMAIN team_stats[a]
        /\ s \in DOMAIN team_stats[b]
        /\ IF s \in negative_stats THEN RLt(team_stats[a][s], team_stats[b][s])
                                   ELSE RLt(team_stats[b][s], team_stats[a][s])

\* C26: calculate_standings(custom) scores and ranks exactly the teams of the
\* supplied mapping with the values of that mapping, and a team of the
\* mapping that is strictly better than another in every scoring category
\* has a strictly greater roto score.
C26_CustomMappingRankedAndDominanceWins ==
    CustomReturned =>
        LET custom == args[1]
        IN  /\ DOMAIN ret.roto_scores = DOMAIN custom
            /\ DOMAIN ret.category_points = DOMAIN custom
            /\ \A s \in DOMAIN ret.rankings :
                   \A i \in DOMAIN ret.rankings[s] :
                       LET e == ret.rankings[s][i]
                       IN  /\ e.tk \in DOMAIN custom
                           /\ s \in DOMAIN custom[e.tk]
                           /\ e.val = custom[e.tk][s]
            /\ \A a \in DOMAIN custom, b \in DOMAIN custom :
                   Dominates(custom, a, b)
                       => RLt(ret.roto_scores[b], ret.roto_scores[a])

\* a mapping of two teams, one better than the other in every category,
\* while the snapshot has a third team that is better than both in every
\* category and is not scored
C26_Witness ==
    /\ CustomReturned
    /\ \E a \in DOMAIN args[1], b \in DOMAIN args[1] :
           /\ DOMAIN args[1] = {a, b}
           /\ Dominates(args[1], a, b)
           /\ RLt(ret.roto_scores[b], ret.roto_scores[a])
           /\ \E c \in DOMAIN heap.ld \ DOMAIN args[1] :
                  /\ Dominates(heap.ld, c, a)
                  /\ c \notin DOMAIN ret.roto_scores

----------------------------------------------------------------------------
(* Claims about LeagueData.fetch_settings                                  *)

\* the entries of a catalog that are scoring stats
ScoringEntries(catalog) ==
    SelectSeq(catalog, LAMBDA cat : cat.is_only_display_stat # "1" /\ cat.stat_id # "")

\* C27: after a fetch_settings whose response has a scoring stat, whatever
\* was fetched before, negative_stats is the set of stat ids the response
\* lists with sort_order "0", and roto_stat_ids lists, in the response's
\* order, its non-empty stat ids that are not display-only.
C27_LatestCatalogDecidesSettings ==
    (op = "fetch_settings" /\ ScoringEntries(args[1]) # <<>>) =>
        /\ negative_stats
               = {args[1][i].stat_id :
                      i \in {j \in DOMAIN args[1] : args[1][j].sort_order = "0"}}
        /\ roto_stat_ids
               = [i \in DOMAIN ScoringEntries(args[1]) |->
                      ScoringEntries(args[1])[i].stat_id]

----------------------------------------------------------------------------
(* Claims relating simulate_trade calls                                    *)

\* what simulate_trade returns for the same trade asked from the other
\* side: simulate_trade(their_players, my_players, their_team_key, my_team_key)
SwappedOutcome == simulate_trade(heap, args[2], args[1], args[4], args[3]).result

\* C28: the my_old_score, my_new_score and my_delta of a simulate_trade call
\* are the their_old_score, their_new_score and their_delta of the call with
\* the two sides swapped, and the other way round; the two calls also list
\* the traded players the other way round.
C28_SwappedSidesSwapResults ==
    SimulateReturned =>
        \E swapped \in {SwappedOutcome} :
            /\ ret.my_old_score = swapped.their_old_score
            /\ ret.my_new_score = swapped.their_new_score
            /\ ret.my_delta = swapped.their_delta
            /\ ret.their_old_score = swapped.my_old_score
            /\ ret.their_new_score = swapped.my_new_score
            /\ ret.their_delta = swapped.my_delta
            /\ ret.my_players_traded = swapped.their_players_traded
            /\ ret.their_players_traded = swapped.my_players_traded

\* a two-for-one trade between two teams of the snapshot whose scores
\* differed before and whose deltas are different and not zero
C28_Witness ==
    /\ SimulateReturned
    /\ args[3] # args[4]
    /\ args[3] \in DOMAIN heap.ld
    /\ Len(args[1]) = 2
    /\ Len(args[2]) = 1
    /\ ret.my_old_score # ret.their_old_score
    /\ ret.my_delta # R(0)
    /\ ret.their_delta # R(0)
    /\ ret.my_delta # ret.their_delta
    /\ SwappedOutcome.my_delta = ret.their_delta

----------------------------------------------------------------------------
(* Claims about the league's scores around a simulated trade               *)

\* the roto scores of all the teams of the mapping team_stats, added up
LeagueTotal(team_stats) == FnSum(calculate_standings(team_stats).roto_scores)

\* C29: after every simulate_trade call the roto scores computed from the
\* modified totals add up, over all teams, to what the roto scores computed
\* from the snapshot add up to.
C29_TradeIsZeroSumOverLeague ==
    SimulateReturned => LeagueTotal(ModifiedTotals) = LeagueTotal(heap.ld)

----------------------------------------------------------------------------
(* Claims about current_rank across the teams of a category                *)

\* what get_standings_gaps returns for each team of the snapshot
GapsOfAllTeams ==
    [t \in DOMAIN heap.ld |->
        IF t = args[1] THEN ret ELSE get_standings_gaps(heap.ld, t)]

\* C30: in every category, the current_rank values get_standings_gaps
\* reports for the teams ranked there are each team's position in the ranked
\* list and so together exactly 1..M; two teams with equal values have
\* different current_rank and equal rank_points; and when every team of the
\* league reports the stat and no two values are equal, each team's
\* rank_points is N - current_rank + 1.
C30_CurrentRanksArePermutation ==
    GapsReturned =>
        \E gaps \in {GapsOfAllTeams} :
            \A s \in DOMAIN LeagueRankings :
                LET ranked == LeagueRankings[s]
                    M == Len(ranked)
                    N == Cardinality(DOMAIN heap.ld)
                    in == {ranked[i].tk : i \in DOMAIN ranked}
                IN  /\ \A t \in in :
                           /\ s \in DOMAIN gaps[t]
                           /\ gaps[t][s].current_rank \in 1..M
                           /\ ranked[gaps[t][s].current_rank].tk = t
                    /\ {gaps[t][s].current_rank : t \in in} = 1..M
                    /\ \A t \in in, u \in in :
                           (t # u /\ REq(gaps[t][s].current_value, gaps[u][s].current_value))
                           => /\ gaps[t][s].current_rank # gaps[u][s].current_rank
                              /\ gaps[t][s].rank_points = gaps[u][s].rank_points
                    /\ (M = N /\ NoTies(ranked)) =>
                           \A t \in in :
                               gaps[t][s].rank_points = R(N - gaps[t][s].current_rank + 1)

\* one category in which two of the three teams are tied, and another in
\* which all three report different values
C30_Witness ==
    /\ GapsReturned
    /\ args[1] \in DOMAIN heap.ld
    /\ \E s \in DOMAIN ret, u \in DOMAIN ret :
           /\ Len(LeagueRankings[s]) = 3
           /\ ret[s].next_above_value = ret[s].current_value
           /\ ret[s].current_rank = 2
           /\ ret[s].rank_points = Frac(5, 2)
           /\ Len(LeagueRankings[u]) = 3
           /\ NoTies(LeagueRankings[u])
           /\ ret[u].rank_points = R(3 - ret[u].current_rank + 1)

====
